---- MODULE Spec2Model ----
(***************************************************************************)
(* A model of the one-billion-row-challenge aggregator (src/src/main.rs).  *)
(*                                                                         *)
(* Bytes are their ASCII codes, byte slices are sequences of bytes, and    *)
(* slice positions are the 0-based offsets of the Rust code.  i32 values   *)
(* keep their width: arithmetic that can leave the i32 range wraps, as in  *)
(* a release build (overflow checks off).                                  *)
(***************************************************************************)
EXTENDS Integers, Sequences, FiniteSets, TLC

----------------------------------------------------------------------------
(* Program constants *)

PARALLELISM == 8

NL == 10
SEMI == 59
MINUS == 45
DOT == 46
ZERO == 48

I32_MAX == 2147483647
I32_MIN == (-I32_MAX) - 1

\* The temperatures of the input are -99.9..99.9: -MaxTemp..MaxTemp tenths.
MaxTemp == 999

----------------------------------------------------------------------------
(* Bounds of the model *)

\* The length of working_buffer and loading_buffer: 128 MiB in the source,
\* scaled down to a few records.
BUFFER_SIZE == 64
\* The input file holds 0..MaxRecords records of a pool, and at most one more.
MaxRecords == 20
\* Pure-function checks of chunk_at_newlines: regions of up to this length.
MaxRegionLen == 12
\* Pure-function checks of parse_line: slices of up to this length.
MaxLineLen == 6
\* Pure-function checks of mean: sums of -MaxSum..MaxSum over 1..MaxCount records.
MaxSum == 40
MaxCount == 4

----------------------------------------------------------------------------
(* Slices *)

\* &s[from..to] with 0-based offsets, from <= to <= len
Slice(s, from, to) == SubSeq(s, from + 1, to)

\* vec![0_u8; n]
Zeros(n) == [i \in 1..n |-> 0]

MinOf(a, b) == IF a <= b THEN a ELSE b
MaxOf(a, b) == IF a >= b THEN a ELSE b

\* memchr::memrchr(b, &s[..upto]): the greatest 0-based offset < upto
\* holding byte b, or -1 for None
memrchr(b, s, upto) ==
    LET hits == {i \in 0..(upto - 1) : s[i + 1] = b}
    IN  IF hits = {} THEN -1 ELSE CHOOSE i \in hits : \A j \in hits : j <= i

\* memchr: the least 0-based offset >= from holding byte b, or -1 for None
memchr(b, s, from) ==
    LET hits == {i \in from..(Len(s) - 1) : s[i + 1] = b}
    IN  IF hits = {} THEN -1 ELSE CHOOSE i \in hits : \A j \in hits : i <= j

----------------------------------------------------------------------------
(* i32 arithmetic *)

\* a + b in i32, wrapping
WrapAdd(a, b) ==
    IF b >= 0
    THEN IF a > I32_MAX - b
         THEN I32_MIN + ((b - (I32_MAX - a)) - 1)
         ELSE a + b
    ELSE IF a < I32_MIN - b
         THEN (I32_MAX + (a - (I32_MIN - b))) + 1
         ELSE a + b

\* a * 10 in i32, wrapping
WrapMul10(a) ==
    LET x2 == WrapAdd(a, a)
        x4 == WrapAdd(x2, x2)
        x8 == WrapAdd(x4, x4)
    IN  WrapAdd(x8, x2)

\* a / b in i32 for b > 0: the quotient truncated toward zero
TruncDiv(a, b) ==
    IF a >= 0
    THEN a \div b
    ELSE LET n == -(a + 1)
         IN  -((n \div b) + (IF n % b = b - 1 THEN 1 ELSE 0))

\* a % b in i32 for b > 0: the remainder has the sign of a
TruncRem(a, b) == a - (b * TruncDiv(a, b))

\* -a in i32, wrapping
WrapNeg(a) == IF a = I32_MIN THEN I32_MIN ELSE -a

----------------------------------------------------------------------------
(* Aggregation *)

\* min, max and sum are i32.  count is a u32: the counts of the model stay far
\* below 2^32, and are added as naturals.
new == [min |-> I32_MAX, max |-> I32_MIN, sum |-> 0, count |-> 0]

\* An update that does not count the value
update_keeps_count(self, value) ==
    [min |-> MinOf(self.min, value),
     max |-> MaxOf(self.max, value),
     sum |-> WrapAdd(self.sum, value),
     count |-> self.count]

update(self, value) ==
    [min |-> MinOf(self.min, value),
     max |-> MaxOf(self.max, value),
     sum |-> WrapAdd(self.sum, value),
     count |-> self.count + 1]

\* A merge that keeps its own sum
merge_drops_sum(self, other) ==
    [min |-> MinOf(self.min, other.min),
     max |-> MaxOf(self.max, other.max),
     sum |-> self.sum,
     count |-> self.count + other.count]

merge(self, other) ==
    [min |-> MinOf(self.min, other.min),
     max |-> MaxOf(self.max, other.max),
     sum |-> WrapAdd(self.sum, other.sum),
     count |-> self.count + other.count]

\* self.count > 0 (a zero count is a division by zero)
mean(self) ==
    LET mean_10 == TruncDiv(WrapMul10(self.sum), self.count)
        remainder == TruncRem(mean_10, 10)
    IN  IF remainder >= 5
        THEN TruncDiv(mean_10, 10) + 1
        ELSE TruncDiv(mean_10, 10)

----------------------------------------------------------------------------
(* parse_line *)

\* The five arms of the match, tried in order; offsets from the right end.
parse_line(line) ==
    LET n == Len(line)
        val(tens, ones, decimal) ==
            ((tens - ZERO) * 100) + ((ones - ZERO) * 10) + (decimal - ZERO)
    IN  IF n >= 6 /\ line[n - 5] = SEMI /\ line[n - 4] = MINUS /\ line[n - 1] = DOT
        THEN [panic |-> FALSE, name |-> Slice(line, 0, n - 6),
              temp |-> -val(line[n - 3], line[n - 2], line[n])]
        ELSE IF n >= 5 /\ line[n - 4] = SEMI /\ line[n - 3] = MINUS /\ line[n - 1] = DOT
        THEN [panic |-> FALSE, name |-> Slice(line, 0, n - 5),
              temp |-> -val(ZERO, line[n - 2], line[n])]
        ELSE IF n >= 5 /\ line[n - 4] = SEMI /\ line[n - 1] = DOT
        THEN [panic |-> FALSE, name |-> Slice(line, 0, n - 5),
              temp |-> val(line[n - 3], line[n - 2], line[n])]
        ELSE IF n >= 4 /\ line[n - 3] = SEMI /\ line[n - 1] = DOT
        THEN [panic |-> FALSE, name |-> Slice(line, 0, n - 4),
              temp |-> val(ZERO, line[n - 2], line[n])]
        ELSE [panic |-> TRUE, name |-> <<>>, temp |-> 0]

----------------------------------------------------------------------------
(* push_float, push_aggregation *)

\* x as u8
AsU8(x) == x % 256

\* A writer that always writes the tens digit
push_float_always_tens(value) ==
    LET sign == IF value < 0 THEN <<MINUS>> ELSE <<>>
        v == IF value < 0 THEN WrapNeg(value) ELSE value
    IN  sign \o <<AsU8(AsU8(TruncDiv(v, 100)) + ZERO)>>
             \o <<AsU8(AsU8(TruncRem(TruncDiv(v, 10), 10)) + ZERO)>>
             \o <<DOT>>
             \o <<AsU8(AsU8(TruncRem(v, 10)) + ZERO)>>

push_float(value) ==
    LET sign == IF value < 0 THEN <<MINUS>> ELSE <<>>
        v == IF value < 0 THEN WrapNeg(value) ELSE value
        hundreds == IF v >= 100
                    THEN <<AsU8(AsU8(TruncDiv(v, 100)) + ZERO)>>
                    ELSE <<>>
    IN  sign \o hundreds
             \o <<AsU8(AsU8(TruncRem(TruncDiv(v, 10), 10)) + ZERO)>>
             \o <<DOT>>
             \o <<AsU8(AsU8(TruncRem(v, 10)) + ZERO)>>

EQUALS == 61
SLASH == 47
LBRACE == 123
RBRACE == 125
COMMA == 44
SPACE == 32

push_aggregation(name, aggregation) ==
    name \o <<EQUALS>> \o push_float(aggregation.min)
         \o <<SLASH>> \o push_float(mean(aggregation))
         \o <<SLASH>> \o push_float(aggregation.max)

----------------------------------------------------------------------------
(* chunk_at_newlines *)

\* A chunker that starts the next chunk on the newline instead of after it
NextStartOnNewline(end) == end

\* start = end + 1
NextStart(end) == end + 1

\* The end of chunk i: the region's length for the last chunk, otherwise the
\* last newline before start + chunk_size.  -1: memrchr found none (the
\* expect panics); -2: start + chunk_size is past the end of the region (the
\* slice panics).
ChunkEnd(to_chunk, chunk_size, i, start) ==
    IF i = PARALLELISM - 1
    THEN Len(to_chunk)
    ELSE IF start + chunk_size > Len(to_chunk)
         THEN -2
         ELSE memrchr(NL, to_chunk, start + chunk_size)

\* The closure of array::from_fn for i, i + 1, ...; `end` is bound as the
\* one element of a set, which computes it once.
RECURSIVE ChunkFrom(_, _, _, _, _)
ChunkFrom(to_chunk, chunk_size, i, start, acc) ==
    IF i = PARALLELISM
    THEN [panic |-> FALSE, why |-> "", chunks |-> acc]
    ELSE CHOOSE res \in
             {IF end = -1
              THEN [panic |-> TRUE, why |-> "There should always be a newline",
                    chunks |-> acc]
              ELSE IF end < 0 \/ start > end
              THEN [panic |-> TRUE, why |-> "slice index", chunks |-> acc]
              ELSE ChunkFrom(to_chunk, chunk_size, i + 1, NextStart(end),
                             Append(acc, [start |-> start, end |-> end])) :
                  end \in {ChunkEnd(to_chunk, chunk_size, i, start)}} : TRUE

\* The chunks are the ranges [start, end) of to_chunk.
chunk_at_newlines(to_chunk) ==
    ChunkFrom(to_chunk, Len(to_chunk) \div PARALLELISM, 0, 0, <<>>)

----------------------------------------------------------------------------
(* Registry, process_line, the reducer, the sorter and the report *)

\* Registry::default()
EmptyRegistry == <<>>

\* A process_line that parses the line and leaves the registry as it is
process_line_folds_nothing(registry, line) ==
    [panic |-> parse_line(line).panic, registry |-> registry]

process_line(registry, line) ==
    LET p == parse_line(line)
    IN  IF p.panic
        THEN [panic |-> TRUE, registry |-> registry]
        ELSE [panic |-> FALSE,
              registry |->
                  IF p.name \in DOMAIN registry
                  THEN [registry EXCEPT ![p.name] = update(@, p.temp)]
                  ELSE registry @@ (p.name :> update(new, p.temp))]

\* The closure given to reduce: every entry of b is merged into a.
MergeRegistry(a, b) ==
    [name \in (DOMAIN a) \cup (DOMAIN b) |->
        IF name \in DOMAIN a /\ name \in DOMAIN b
        THEN merge(a[name], b[name])
        ELSE IF name \in DOMAIN a THEN a[name] ELSE b[name]]

\* The accumulator is bound as the one element of a set, which computes it
\* once.
RECURSIVE ReduceFrom(_, _, _)
ReduceFrom(regs, i, acc) ==
    IF i > Len(regs) THEN acc
    ELSE CHOOSE res \in
             {ReduceFrom(regs, i + 1, merged) :
                  merged \in {MergeRegistry(acc, regs[i])}} : TRUE

\* registries.into_iter().reduce(...)
Reduce(regs) == ReduceFrom(regs, 2, regs[1])

\* name1.cmp(name2) == Less on byte vectors
Less(a, b) ==
    LET m == MinOf(Len(a), Len(b))
        diff == {i \in 1..m : a[i] # b[i]}
    IN  IF diff = {}
        THEN Len(a) < Len(b)
        ELSE LET k == CHOOSE i \in diff : \A j \in diff : i <= j
             IN  a[k] < b[k]

RECURSIVE SortNames(_)
SortNames(names) ==
    IF names = {} THEN <<>>
    ELSE LET least == CHOOSE a \in names : \A b \in names \ {a} : Less(a, b)
         IN  <<least>> \o SortNames(names \ {least})

\* registry.into_iter().collect(), then sort_unstable_by name
SortedAggregations(registry) ==
    LET names == SortNames(DOMAIN registry)
    IN  [i \in 1..Len(names) |-> <<names[i], registry[names[i]]>>]

RECURSIVE PushRest(_, _)
PushRest(name_aggs, i) ==
    IF i > Len(name_aggs) THEN <<>>
    ELSE <<COMMA, SPACE>> \o push_aggregation(name_aggs[i][1], name_aggs[i][2])
             \o PushRest(name_aggs, i + 1)

\* The bytes written for a non-empty name_aggregations
Report(name_aggs) ==
    <<LBRACE>> \o push_aggregation(name_aggs[1][1], name_aggs[1][2])
               \o PushRest(name_aggs, 2) \o <<RBRACE>>

----------------------------------------------------------------------------
(* The input files of the model *)

\* The byte of decimal digit d, and of the i-th lower-case letter
Digit(d) == ZERO + d
Letter(i) == 96 + i

\* name;[-][t]o.d
Record(name, negative, t, o, d) ==
    name \o <<SEMI>> \o (IF negative THEN <<MINUS>> ELSE <<>>)
         \o (IF t > 0 THEN <<Digit(t)>> ELSE <<>>)
         \o <<Digit(o), DOT, Digit(d)>>

\* Two pools of records: one of equal lengths, one of mixed lengths.
Pools ==
    << << Record(<<Letter(2)>>, FALSE, 0, 1, 5),
          Record(<<Letter(1)>>, FALSE, 0, 0, 2),
          Record(<<Letter(2)>>, FALSE, 0, 9, 9) >>,
       << Record(<<Letter(2)>>, FALSE, 0, 1, 5),
          Record(<<Letter(1)>>, TRUE, 0, 0, 2),
          Record(<<Letter(2)>>, FALSE, 1, 2, 3) >> >>

\* The last record of a file, when it has one more than the pool's: a valid
\* record of a station of its own (1), or a malformed one (2).
Tails ==
    << Record(<<Letter(3)>>, TRUE, 0, 7, 5),
       <<Letter(3), SEMI, Digit(7)>> >>

RECURSIVE JoinLines(_, _)
JoinLines(recs, i) ==
    IF i > Len(recs) THEN <<>>
    ELSE recs[i] \o (IF i < Len(recs) THEN <<NL>> ELSE <<>>) \o JoinLines(recs, i + 1)

\* The records, one per line; the last line ends with a newline iff nl.
FileOf(recs, nl) ==
    JoinLines(recs, 1) \o (IF nl /\ recs # <<>> THEN <<NL>> ELSE <<>>)

PoolRecords(k, n, tail) ==
    [j \in 1..n |-> Pools[k][((j - 1) % Len(Pools[k])) + 1]]
        \o (IF tail = 0 THEN <<>> ELSE <<Tails[tail]>>)

\* Paris;12.3  Paris;-1.0  London;5.5
ExampleRecords ==
    << Record(<<80, 97, 114, 105, 115>>, FALSE, 1, 2, 3),
       Record(<<80, 97, 114, 105, 115>>, TRUE, 0, 1, 0),
       Record(<<76, 111, 110, 100, 111, 110>>, FALSE, 0, 5, 5) >>

\* The numbers of pool records tried: around each multiple of ten, so that
\* the file is shorter than a buffer, about as long, or about two buffers long.
RecordCounts == {n \in 0..MaxRecords : n % 10 \in {0, 9}}

Files ==
    {FileOf(PoolRecords(k, n, tail), nl) :
        k \in 1..Len(Pools), n \in RecordCounts, tail \in 0..Len(Tails),
        nl \in BOOLEAN}
    \cup {FileOf(ExampleRecords, nl) : nl \in BOOLEAN}

----------------------------------------------------------------------------
(* main: the state *)

VARIABLES
    file,               \* the bytes of the input file
    pos,                \* the file's read position
    working_buffer,
    loading_buffer,
    registries,         \* [Registry; PARALLELISM]
    pc,                 \* where main is
    remainder,          \* the slices of the current round
    to_process,
    chunks,
    workers,            \* the scoped threads: status, and start of the next line
    closure_panicked,   \* the scope's closure panicked (copy_from_slice)
    read,               \* file.read's result in the round: Ok(n) as n, Err as -1
    registry,           \* the reduced registry
    name_aggregations,
    out,                \* the bytes written to standard output
    err,                \* why main failed: the error returned or the panic
    rounds,             \* history: working_buffer and pos at the top of each round
    folded,             \* history: the lines each worker gave to process_line
    probe               \* the input and result of a pure-function check

mainVars ==
    <<file, pos, working_buffer, loading_buffer, registries, pc, remainder,
      to_process, chunks, workers, closure_panicked, read, registry,
      name_aggregations, out, err, rounds, folded>>

vars == <<mainVars, probe>>

Workers == 1..PARALLELISM

InScope == pc \in {"spawn", "copy", "read", "join"}

Unspawned == [status |-> "unspawned", start |-> 0]

\* main before File::open, reading `input`
MainInit(input) ==
    /\ file = input
    /\ pos = 0
    /\ working_buffer = <<>>
    /\ loading_buffer = <<>>
    /\ registries = <<>>
    /\ pc = "open"
    /\ remainder = <<>>
    /\ to_process = <<>>
    /\ chunks = <<>>
    /\ workers = [i \in Workers |-> Unspawned]
    /\ closure_panicked = FALSE
    /\ read = 0
    /\ registry = EmptyRegistry
    /\ name_aggregations = <<>>
    /\ out = <<>>
    /\ err = ""
    /\ rounds = <<>>
    /\ folded = [i \in Workers |-> <<>>]

Init ==
    /\ \E input \in Files : MainInit(input)
    /\ probe = <<>>

----------------------------------------------------------------------------
(* main: the steps *)

\* A file that gives bytes to its first read only
ReadOnlyAtStart(space) ==
    IF pos = 0 THEN MinOf(space, Len(file)) ELSE 0

\* file.read(buf) on a regular file: the bytes from pos that fit
ReadLen(space) == MinOf(space, Len(file) - pos)

\* File::open, and the allocation of the buffers and registries
Open ==
    /\ pc = "open"
    /\ \E ok \in BOOLEAN :
         IF ok
         THEN /\ working_buffer' = Zeros(BUFFER_SIZE)
              /\ loading_buffer' = Zeros(BUFFER_SIZE)
              /\ registries' = [i \in Workers |-> EmptyRegistry]
              /\ pc' = "first_read"
              /\ err' = err
         ELSE /\ pc' = "error"
              /\ err' = "open failed"
              /\ UNCHANGED <<working_buffer, loading_buffer, registries>>
    /\ UNCHANGED <<file, pos, remainder, to_process, chunks, workers,
                   closure_panicked, read, registry, name_aggregations, out, probe,
                   rounds, folded>>

\* file.read(&mut working_buffer)?: the count read is dropped
FirstRead ==
    /\ pc = "first_read"
    /\ \E ok \in BOOLEAN :
         IF ok
         THEN LET n == ReadLen(Len(working_buffer))
              IN  /\ working_buffer' =
                         Slice(file, pos, pos + n)
                             \o Slice(working_buffer, n, Len(working_buffer))
                  /\ pos' = pos + n
                  /\ pc' = "loop"
                  /\ err' = err
         ELSE /\ pc' = "error"
              /\ err' = "read failed"
              /\ UNCHANGED <<working_buffer, pos>>
    /\ UNCHANGED <<file, loading_buffer, registries, remainder, to_process, chunks,
                   workers, closure_panicked, read, registry, name_aggregations,
                   out, probe,
                   rounds, folded>>

\* The top of the loop: rsplitn at the last newline, then chunk_at_newlines
Split ==
    /\ pc = "loop"
    /\ LET last == memrchr(NL, working_buffer, Len(working_buffer))
       IN  IF last = -1
           THEN /\ pc' = "error"
                /\ err' = "No newline found in working buffer"
                /\ UNCHANGED <<remainder, to_process, chunks>>
           ELSE \E rem \in {Slice(working_buffer, last + 1, Len(working_buffer))} :
                \E top \in {Slice(working_buffer, 0, last)} :
                \E res \in {chunk_at_newlines(top)} :
                    /\ remainder' = rem
                    /\ to_process' = top
                    /\ err' = res.why
                    /\ IF res.panic
                       THEN pc' = "panic" /\ UNCHANGED chunks
                       ELSE pc' = "spawn" /\ chunks' = res.chunks
    /\ rounds' = Append(rounds, [working_buffer |-> working_buffer, pos |-> pos])
    /\ workers' = [i \in Workers |-> Unspawned]
    /\ closure_panicked' = FALSE
    /\ UNCHANGED <<file, pos, working_buffer, loading_buffer, registries, read,
                   registry, name_aggregations, out, probe,
                   folded>>

\* s.spawn for the next (chunk, registry) pair
Spawn ==
    /\ pc = "spawn"
    /\ LET i == CHOOSE j \in Workers :
                   /\ workers[j].status = "unspawned"
                   /\ \A k \in 1..(j - 1) : workers[k].status # "unspawned"
       IN  /\ workers' = [workers EXCEPT ![i] = [status |-> "running", start |-> 0]]
           /\ pc' = IF i = PARALLELISM THEN "copy" ELSE "spawn"
    /\ UNCHANGED <<file, pos, working_buffer, loading_buffer, registries, remainder,
                   to_process, chunks, closure_panicked, read, registry,
                   name_aggregations, out, err, probe,
                   rounds, folded>>

\* loading_buffer[..remainder.len()].copy_from_slice(remainder)
CopyRemainder ==
    /\ pc = "copy"
    /\ IF Len(remainder) > Len(loading_buffer)
       THEN /\ closure_panicked' = TRUE
            /\ err' = "slice index"
            /\ pc' = "join"
            /\ UNCHANGED loading_buffer
       ELSE /\ loading_buffer' =
                   remainder \o Slice(loading_buffer, Len(remainder), Len(loading_buffer))
            /\ pc' = "read"
            /\ UNCHANGED <<closure_panicked, err>>
    /\ UNCHANGED <<file, pos, working_buffer, registries, remainder, to_process,
                   chunks, workers, read, registry, name_aggregations, out, probe,
                   rounds, folded>>

\* file.read(&mut loading_buffer[remainder.len()..])
ReadLoading ==
    /\ pc = "read"
    /\ \E ok \in BOOLEAN :
         IF ok
         THEN LET at == Len(remainder)
                  n == ReadLen(Len(loading_buffer) - at)
              IN  /\ loading_buffer' =
                         Slice(loading_buffer, 0, at)
                             \o Slice(file, pos, pos + n)
                             \o Slice(loading_buffer, at + n, Len(loading_buffer))
                  /\ pos' = pos + n
                  /\ read' = n
         ELSE /\ read' = -1
              /\ UNCHANGED <<loading_buffer, pos>>
    /\ pc' = "join"
    /\ UNCHANGED <<file, working_buffer, registries, remainder, to_process, chunks,
                   workers, closure_panicked, registry, name_aggregations, out, err, probe,
                   rounds, folded>>

\* Every worker is given the first chunk
ChunkOfFirst(i) == Slice(to_process, chunks[1].start, chunks[1].end)

\* The bytes of chunk i
Chunk(i) == Slice(to_process, chunks[i].start, chunks[i].end)

\* One turn of worker i's loop: process_line on the next line of its chunk
WorkerLine(i) ==
    /\ InScope
    /\ workers[i].status = "running"
    /\ \E chunk \in {Chunk(i)}, start \in {workers[i].start} :
       \E found \in {memchr(NL, chunk, start)} :
       \E end \in {IF found = -1 THEN Len(chunk) ELSE found} :
       \E line \in {Slice(chunk, start, end)} :
       \E res \in {process_line(registries[i], line)} :
           IF res.panic
           THEN /\ workers' = [workers EXCEPT ![i].status = "panicked"]
                /\ err' = "Invalid line format"
                /\ UNCHANGED <<registries, folded>>
           ELSE /\ registries' = [registries EXCEPT ![i] = res.registry]
                /\ folded' = [folded EXCEPT ![i] =
                       Append(@, [round |-> Len(rounds),
                                  at |-> chunks[i].start + start,
                                  line |-> line])]
                /\ err' = err
                /\ workers' = [workers EXCEPT ![i] =
                       [status |-> IF end = Len(chunk) THEN "done" ELSE "running",
                        start |-> end + 1]]
    /\ UNCHANGED <<file, pos, working_buffer, loading_buffer, pc, remainder,
                   to_process, chunks, closure_panicked, read, registry,
                   name_aggregations, out, probe,
                   rounds>>

AllJoined == \A i \in Workers : workers[i].status \in {"done", "panicked"}

\* The end of thread::scope: a panic of a thread or of the closure is propagated
JoinPanic ==
    /\ pc = "join"
    /\ AllJoined
    /\ closure_panicked \/ \E i \in Workers : workers[i].status = "panicked"
    /\ pc' = "panic"
    /\ err' = err
    /\ UNCHANGED <<file, pos, working_buffer, loading_buffer, registries, remainder,
                   to_process, chunks, workers, closure_panicked, read, registry,
                   name_aggregations, out, probe,
                   rounds, folded>>

\* A scope that returns without waiting for its threads
ScopeReturnsEarly ==
    /\ pc = "join"
    /\ ~closure_panicked
    /\ \A i \in Workers : workers[i].status # "panicked"

ScopeOk ==
    /\ pc = "join"
    /\ AllJoined
    /\ ~closure_panicked
    /\ \A i \in Workers : workers[i].status = "done"

\* thread::scope(..)? on Err
JoinErr ==
    /\ ScopeOk
    /\ read = -1
    /\ pc' = "error"
    /\ err' = "read failed"
    /\ UNCHANGED <<file, pos, working_buffer, loading_buffer, registries, remainder,
                   to_process, chunks, workers, closure_panicked, read, registry,
                   name_aggregations, out, probe,
                   rounds, folded>>

\* if read == 0 { break; }
Break ==
    /\ ScopeOk
    /\ read = 0
    /\ pc' = "reduce"
    /\ UNCHANGED <<file, pos, working_buffer, loading_buffer, registries, remainder,
                   to_process, chunks, workers, closure_panicked, read, registry,
                   name_aggregations, out, err, probe,
                   rounds, folded>>

\* The drain of loading_buffer past the bytes read, and the swap
Swap ==
    /\ ScopeOk
    /\ read > 0
    /\ LET filled == read + Len(remainder)
           drained == IF filled < Len(loading_buffer)
                      THEN Slice(loading_buffer, 0, filled)
                      ELSE loading_buffer
       IN  /\ working_buffer' = drained
           /\ loading_buffer' = working_buffer
    /\ pc' = "loop"
    /\ UNCHANGED <<file, pos, registries, remainder, to_process, chunks, workers,
                   closure_panicked, read, registry, name_aggregations, out, err, probe,
                   rounds, folded>>

\* registries.into_iter().reduce(..)
ReduceRegistries ==
    /\ pc = "reduce"
    /\ registry' = Reduce(registries)
    /\ pc' = "sort"
    /\ UNCHANGED <<file, pos, working_buffer, loading_buffer, registries, remainder,
                   to_process, chunks, workers, closure_panicked, read,
                   name_aggregations, out, err, probe,
                   rounds, folded>>

Sort ==
    /\ pc = "sort"
    /\ name_aggregations' = SortedAggregations(registry)
    /\ pc' = "write"
    /\ UNCHANGED <<file, pos, working_buffer, loading_buffer, registries, remainder,
                   to_process, chunks, workers, closure_panicked, read, registry,
                   out, err, probe,
                   rounds, folded>>

\* The report; first().unwrap() panics on an empty list, after "{" was
\* written to the BufWriter, which is flushed when dropped.
WriteReport ==
    /\ pc = "write"
    /\ IF name_aggregations = <<>>
       THEN out' = <<LBRACE>> /\ pc' = "panic" /\ err' = "unwrap on None"
       ELSE out' = Report(name_aggregations) /\ pc' = "done" /\ err' = err
    /\ UNCHANGED <<file, pos, working_buffer, loading_buffer, registries, remainder,
                   to_process, chunks, workers, closure_panicked, read, registry,
                   name_aggregations, probe,
                   rounds, folded>>

Next ==
    \/ Open
    \/ FirstRead
    \/ Split
    \/ Spawn
    \/ CopyRemainder
    \/ ReadLoading
    \/ \E i \in Workers : WorkerLine(i)
    \/ JoinPanic
    \/ JoinErr
    \/ Break
    \/ Swap
    \/ ReduceRegistries
    \/ Sort
    \/ WriteReport

Spec == Init /\ [][Next]_vars

----------------------------------------------------------------------------
(* The reference: a sequential scan of the whole file *)

IsDigit(b) == b \in ZERO..(ZERO + 9)

\* The four shapes of a record's end: ;d.d  ;dd.d  ;-d.d  ;-dd.d
ValidShape(line) ==
    LET n == Len(line)
    IN  \/ /\ n >= 4 /\ line[n - 3] = SEMI /\ IsDigit(line[n - 2])
           /\ line[n - 1] = DOT /\ IsDigit(line[n])
        \/ /\ n >= 5 /\ line[n - 4] = SEMI /\ IsDigit(line[n - 3])
           /\ IsDigit(line[n - 2]) /\ line[n - 1] = DOT /\ IsDigit(line[n])
        \/ /\ n >= 5 /\ line[n - 4] = SEMI /\ line[n - 3] = MINUS
           /\ IsDigit(line[n - 2]) /\ line[n - 1] = DOT /\ IsDigit(line[n])
        \/ /\ n >= 6 /\ line[n - 5] = SEMI /\ line[n - 4] = MINUS
           /\ IsDigit(line[n - 3]) /\ IsDigit(line[n - 2])
           /\ line[n - 1] = DOT /\ IsDigit(line[n])

\* The lines of s from offset `from`; a newline at the end ends the last line.
RECURSIVE SplitLines(_, _)
SplitLines(s, from) ==
    LET e == memchr(NL, s, from)
    IN  IF e = -1
        THEN IF from >= Len(s) THEN <<>> ELSE <<Slice(s, from, Len(s))>>
        ELSE <<Slice(s, from, e)>> \o SplitLines(s, e + 1)

RecordsOf(f) == SplitLines(f, 0)

ValidFile(f) ==
    LET recs == RecordsOf(f)
    IN  \A i \in 1..Len(recs) : ValidShape(recs[i])

RECURSIVE ScanFrom(_, _, _)
ScanFrom(lines, i, reg) ==
    IF i > Len(lines) THEN reg
    ELSE ScanFrom(lines, i + 1, process_line(reg, lines[i]).registry)

\* One registry, every record of the file folded into it in file order
SequentialScan(f) == ScanFrom(RecordsOf(f), 1, EmptyRegistry)

SequentialReport(f) == Report(SortedAggregations(SequentialScan(f)))

StationsOf(f) == {parse_line(RecordsOf(f)[i]).name : i \in 1..Len(RecordsOf(f))}

RECURSIVE SumCounts(_, _)
SumCounts(reg, names) ==
    IF names = {} THEN 0
    ELSE LET n == CHOOSE x \in names : TRUE
         IN  reg[n].count + SumCounts(reg, names \ {n})

\* The number of records folded into the registries so far
RECURSIVE FoldedFrom(_, _)
FoldedFrom(regs, i) ==
    IF i > Len(regs) THEN 0
    ELSE SumCounts(regs[i], DOMAIN regs[i]) + FoldedFrom(regs, i + 1)

EndsWithNewline(f) == f # <<>> /\ f[Len(f)] = NL

IoFailed == err \in {"open failed", "read failed"}

----------------------------------------------------------------------------
(* Claims about main *)

\* C1: for every file of valid records, the registry the streaming pipeline
\* merges, and the report it writes, are those of a sequential scan of all
\* the records of the file.
C1_PipelineEqualsSequentialScan ==
    (pc \in {"sort", "write", "done"} /\ file # <<>> /\ ValidFile(file)) =>
        /\ registry = SequentialScan(file)
        /\ pc = "done" => out = SequentialReport(file)

\* C2: for a file whose last record has no newline after it, when the loop
\* exits on a zero-byte read every record of the file has been folded into a
\* registry exactly once (none lost, none duplicated).
C2_LastRecordWithoutNewlineFolded ==
    (pc = "reduce" /\ ValidFile(file) /\ file # <<>> /\ ~EndsWithNewline(file)) =>
        /\ FoldedFrom(registries, 1) = Len(RecordsOf(file))
        /\ Reduce(registries) = SequentialScan(file)

\* C3: for a file of exactly one valid record, main completes normally and
\* the report has exactly one entry, whose min, mean and max are the record's
\* value.
C3_SingleRecordFileReported ==
    (~IoFailed /\ Len(RecordsOf(file)) = 1 /\ ValidFile(file)) =>
        /\ pc \notin {"panic", "error"}
        /\ pc = "done" =>
              LET p == parse_line(RecordsOf(file)[1])
              IN  out = <<LBRACE>> \o p.name \o <<EQUALS>> \o push_float(p.temp)
                           \o <<SLASH>> \o push_float(p.temp)
                           \o <<SLASH>> \o push_float(p.temp) \o <<RBRACE>>

\* C10: the report lists every distinct station name of the input exactly
\* once, in strictly ascending byte order, as {name=min/mean/max, ...}, and
\* is written only after all input is consumed and the registries are merged.
C10_ReportListsEveryStationSorted ==
    /\ (pc = "done" /\ ValidFile(file)) =>
          /\ {name_aggregations[i][1] : i \in 1..Len(name_aggregations)}
                 = StationsOf(file)
          /\ Len(name_aggregations) = Cardinality(StationsOf(file))
          /\ \A i \in 1..(Len(name_aggregations) - 1) :
                 Less(name_aggregations[i][1], name_aggregations[i + 1][1])
          /\ out = Report(name_aggregations)
    /\ out # <<>> => (pos = Len(file) /\ pc \in {"done", "panic"})

----------------------------------------------------------------------------
(* chunk_at_newlines on its own *)

RECURSIVE SeqsOver(_, _)
\* The sequences over `alphabet` of length n
SeqsOver(alphabet, n) ==
    IF n = 0 THEN {<<>>}
    ELSE {Append(q, b) : q \in SeqsOver(alphabet, n - 1), b \in alphabet}

SeqsUpTo(alphabet, n) == UNION {SeqsOver(alphabet, k) : k \in 0..n}

\* Regions: every short sequence of newlines and other bytes, and the lines,
\* without their last newline, of the pools' records (any number of them)
\* and of the three-record example.
Regions ==
    SeqsUpTo({Letter(1), NL}, MaxRegionLen)
        \cup {FileOf(PoolRecords(k, n, tail), FALSE) :
                 k \in 1..Len(Pools), n \in 0..MaxRecords, tail \in 0..1}
        \cup {FileOf(ExampleRecords, FALSE)}

InitChunk ==
    /\ MainInit(<<>>)
    /\ \E region \in Regions :
           probe = [op |-> "chunk", region |-> region, done |-> FALSE,
                    res |-> [panic |-> FALSE, why |-> "", chunks |-> <<>>]]

ChunkProbe ==
    /\ probe.op = "chunk"
    /\ ~probe.done
    /\ probe' = [probe EXCEPT !.done = TRUE, !.res = chunk_at_newlines(probe.region)]
    /\ UNCHANGED mainVars

NextChunk == ChunkProbe

SpecChunk == InitChunk /\ [][NextChunk]_vars

RECURSIVE Rejoined(_, _, _)
\* The slices from the i-th on, in order, a newline between consecutive ones
Rejoined(region, slices, i) ==
    IF i > Len(slices) THEN <<>>
    ELSE Slice(region, slices[i].start, slices[i].end)
             \o (IF i < Len(slices) THEN <<NL>> ELSE <<>>)
             \o Rejoined(region, slices, i + 1)

\* C4: whenever chunk_at_newlines returns, its PARALLELISM slices, joined in
\* order by one newline, are the region; every slice but the first begins
\* right after a newline of the region, where the slice before it ended, so
\* no byte is in two slices and no record is split.
C4_ChunksPartitionRegion ==
    (probe.done /\ ~probe.res.panic) =>
        LET region == probe.region
            slices == probe.res.chunks
        IN  /\ Len(slices) = PARALLELISM
            /\ Rejoined(region, slices, 1) = region
            /\ slices[1].start = 0
            /\ slices[PARALLELISM].end = Len(region)
            /\ \A i \in 1..PARALLELISM :
                   0 <= slices[i].start /\ slices[i].start <= slices[i].end
                       /\ slices[i].end <= Len(region)
            /\ \A i \in 2..PARALLELISM :
                   /\ region[slices[i].start] = NL
                   /\ slices[i].start = slices[i - 1].end + 1

\* A region of records was chunked into slices that all hold a record.
C4_Witness ==
    /\ probe.done
    /\ ~probe.res.panic
    /\ \A i \in 1..PARALLELISM :
           probe.res.chunks[i].end - probe.res.chunks[i].start >= 5
    /\ \E i \in 1..PARALLELISM :
           \E j \in probe.res.chunks[i].start..(probe.res.chunks[i].end - 1) :
               probe.region[j + 1] = NL

----------------------------------------------------------------------------
(* Aggregation on its own *)

TempSamples == {-MaxTemp, -5, 0, 7, MaxTemp}

\* Records of one and of two updates, the record before any update, and
\* records of millions of updates: their sums are near the ends of i32.
AggSamples ==
    {new}
        \cup {update(new, v) : v \in TempSamples}
        \cup {update(update(new, v), w) : v \in TempSamples, w \in {-5, 7}}
        \cup {[min |-> MaxTemp, max |-> MaxTemp, sum |-> 1998000000, count |-> 2000000],
              [min |-> -MaxTemp, max |-> -MaxTemp, sum |-> -1998000000, count |-> 2000000],
              [min |-> 250, max |-> 250, sum |-> 250000000, count |-> 1000000]}

RECURSIVE Updates(_, _, _)
\* k updates of self by value
Updates(self, value, k) ==
    IF k = 0 THEN self ELSE Updates(update(self, value), value, k - 1)

\* Records of n updates whose sum is s, and records of a million updates
MeanSamples ==
    {Updates(update(new, s), 0, n - 1) : s \in (-MaxSum)..MaxSum, n \in 1..MaxCount}
        \cup {[min |-> 250, max |-> 250, sum |-> 250000000, count |-> 1000000],
              [min |-> 0, max |-> 430, sum |-> 214748364, count |-> 1000000],
              [min |-> 0, max |-> 430, sum |-> 214748365, count |-> 1000000]}

InitAgg ==
    /\ MainInit(<<>>)
    /\ \/ \E a \in AggSamples, b \in AggSamples, c \in AggSamples :
              probe = [op |-> "merge", a |-> a, b |-> b, c |-> c, done |-> FALSE,
                       ab_c |-> new, a_bc |-> new, ba_c |-> new]
       \/ \E self \in MeanSamples :
              probe = [op |-> "mean", self |-> self, done |-> FALSE, res |-> 0]

\* The three groupings of the merge of a, b and c
MergeProbe ==
    /\ probe.op = "merge"
    /\ ~probe.done
    /\ probe' = [probe EXCEPT !.done = TRUE,
                              !.ab_c = merge(merge(probe.a, probe.b), probe.c),
                              !.a_bc = merge(probe.a, merge(probe.b, probe.c)),
                              !.ba_c = merge(merge(probe.b, probe.a), probe.c)]
    /\ UNCHANGED mainVars

MeanProbe ==
    /\ probe.op = "mean"
    /\ ~probe.done
    /\ probe' = [probe EXCEPT !.done = TRUE, !.res = mean(probe.self)]
    /\ UNCHANGED mainVars

NextAgg == MergeProbe \/ MeanProbe

SpecAgg == InitAgg /\ [][NextAgg]_vars

\* C5: merge is associative and commutative on min, max, sum and count:
\* merge(merge(A,B),C) = merge(A,merge(B,C)) = merge(merge(B,A),C).
C5_MergeAssociativeCommutative ==
    (probe.op = "merge" /\ probe.done) =>
        /\ probe.ab_c = probe.a_bc
        /\ probe.ab_c = probe.ba_c

\* Three different records were merged, and the sum of the first two left
\* the i32 range on the way.
C5_Witness ==
    /\ probe.op = "merge"
    /\ probe.done
    /\ probe.a.sum = 1998000000 /\ probe.b.sum = 250000000 /\ probe.c.sum = -5
    /\ merge(probe.a, probe.b).sum < 0
    /\ probe.ab_c.min < probe.ab_c.max
    /\ probe.ab_c.count = probe.a.count + probe.b.count + probe.c.count
    /\ probe.ab_c = probe.a_bc

\* sum / count rounded half up to an integer (sum / count + 1/2, floored)
HalfUp(sum, count) ==
    (sum \div count) + (IF 2 * (sum % count) >= count THEN 1 ELSE 0)

\* C6: for sum >= 0 and count > 0, mean() is sum / count rounded half up
\* (sum=15, count=2 gives 8; sum=14, count=2 gives 7).
C6_MeanRoundsHalfUp ==
    (probe.op = "mean" /\ probe.done /\ probe.self.sum >= 0 /\ probe.self.count > 0) =>
        probe.res = HalfUp(probe.self.sum, probe.self.count)

\* The quotient 10 * sum / count truncated toward zero, for the sums of the
\* model that stay in range
Tenths(sum, count) == TruncDiv(10 * sum, count)

\* C7: for sum < 0 and count > 0, a last digit of magnitude 5 or more of the
\* truncated quotient rounds the mean away from zero (sum=-15, count=2 gives
\* -8), and a smaller one truncates toward zero.
C7_NegativeMeanRoundsAwayFromZero ==
    (probe.op = "mean" /\ probe.done /\ probe.self.sum < 0 /\ probe.self.count > 0
        /\ probe.self.sum >= -MaxSum) =>
        LET t == Tenths(probe.self.sum, probe.self.count)
        IN  probe.res = IF -TruncRem(t, 10) >= 5
                        THEN TruncDiv(t, 10) - 1
                        ELSE TruncDiv(t, 10)

----------------------------------------------------------------------------
(* parse_line and push_float on their own *)

\* [-][t]o.d: no tens digit for t = 0
TempText(negative, t, o, d) ==
    (IF negative THEN <<MINUS>> ELSE <<>>)
        \o (IF t > 0 THEN <<Digit(t)>> ELSE <<>>)
        \o <<Digit(o), DOT, Digit(d)>>

\* The temperature texts in canonical form: the four shapes, without a
\* leading zero before another digit and without a negative zero.
CanonicalTexts ==
    {TempText(negative, t, o, d) :
        negative \in BOOLEAN, t \in 0..9, o \in 0..9, d \in 0..9}
    \ {TempText(TRUE, 0, 0, 0)}

\* The tenths that the text of the given digits stands for
TenthsOf(negative, t, o, d) ==
    (IF negative THEN -1 ELSE 1) * ((100 * t) + (10 * o) + d)

ProbeName == <<Letter(1), Letter(2)>>

\* Slices to parse: every short slice over a letter, the delimiters and a
\* digit, and every canonical record of ProbeName.
InitParse ==
    /\ MainInit(<<>>)
    /\ \/ \E line \in SeqsUpTo({Letter(1), SEMI, MINUS, DOT, Digit(5)}, MaxLineLen) :
              probe = [op |-> "parse", line |-> line, text |-> <<>>,
                       canonical |-> FALSE, done |-> FALSE,
                       res |-> [panic |-> FALSE, name |-> <<>>, temp |-> 0],
                       written |-> <<>>]
       \/ \E text \in CanonicalTexts :
              probe = [op |-> "parse", line |-> ProbeName \o <<SEMI>> \o text,
                       text |-> text, canonical |-> TRUE, done |-> FALSE,
                       res |-> [panic |-> FALSE, name |-> <<>>, temp |-> 0],
                       written |-> <<>>]
       \/ \E v \in (-MaxTemp)..MaxTemp :
              probe = [op |-> "format", v |-> v, done |-> FALSE, written |-> <<>>,
                       res |-> [panic |-> FALSE, name |-> <<>>, temp |-> 0]]

\* parse_line of the slice, then push_float of the tenths it returned
ParseProbe ==
    /\ probe.op = "parse"
    /\ ~probe.done
    /\ LET res == parse_line(probe.line)
       IN  probe' = [probe EXCEPT !.done = TRUE, !.res = res,
                         !.written = IF res.panic THEN <<>> ELSE push_float(res.temp)]
    /\ UNCHANGED mainVars

\* push_float of v, then parse_line of the record of ProbeName it makes
FormatProbe ==
    /\ probe.op = "format"
    /\ ~probe.done
    /\ LET written == push_float(probe.v)
       IN  probe' = [probe EXCEPT !.done = TRUE, !.written = written,
                         !.res = parse_line(ProbeName \o <<SEMI>> \o written)]
    /\ UNCHANGED mainVars

NextParse == ParseProbe \/ FormatProbe

SpecParse == InitParse /\ [][NextParse]_vars

\* The tenths of a slice of one of the four shapes
ShapeValue(line) ==
    LET n == Len(line)
        neg == (n >= 5 /\ line[n - 3] = MINUS) \/ (n >= 6 /\ line[n - 4] = MINUS)
        two == n >= 5 /\ IsDigit(line[n - 3])
    IN  TenthsOf(neg, IF two THEN line[n - 3] - ZERO ELSE 0,
                 line[n - 2] - ZERO, line[n] - ZERO)

\* C8: parse_line panics on every slice that is not name ; [-] d[d] . d with
\* decimal digits, and on a slice of that form returns the signed value
\* times ten.
C8_ParseLinePanicsOnEveryOtherSlice ==
    (probe.op = "parse" /\ probe.done) =>
        /\ probe.res.panic <=> ~ValidShape(probe.line)
        /\ ValidShape(probe.line) => probe.res.temp = ShapeValue(probe.line)

\* C9: for every canonical temperature text, push_float of the tenths that
\* parse_line returns writes the text back; and for every v in -999..999,
\* parse_line of name;push_float(v) returns the name and v.
C9_ParseFormatRoundTrip ==
    /\ (probe.op = "parse" /\ probe.done /\ probe.canonical) =>
          /\ ~probe.res.panic
          /\ probe.res.name = ProbeName
          /\ probe.written = probe.text
    /\ (probe.op = "format" /\ probe.done) =>
          /\ ~probe.res.panic
          /\ probe.res.name = ProbeName
          /\ probe.res.temp = probe.v

\* -12.3 was parsed to -123 and written back.
C9_Witness ==
    /\ probe.op = "parse"
    /\ probe.done
    /\ probe.canonical
    /\ probe.text = <<MINUS, Digit(1), Digit(2), DOT, Digit(3)>>
    /\ probe.res.temp = -123
    /\ probe.written = probe.text


----------------------------------------------------------------------------
(* Claims about the registries of main *)

\* The lines of the workers `ws` that were folded into the record of `name`,
\* as <<worker, index in folded[worker]>>
Contributing(ws, name) ==
    {ij \in UNION {{i} \X DOMAIN folded[i] : i \in ws} :
        parse_line(folded[ij[1]][ij[2]].line).name = name}

TempAt(ij) == parse_line(folded[ij[1]][ij[2]].line).temp

\* The record has seen the lines c: one or more, counted once each, min and
\* max the least and the greatest of their values.
AggregatesExactly(agg, c) ==
    /\ agg.count >= 1
    /\ agg.min <= agg.max
    /\ agg.count = Cardinality(c)
    /\ \E ij \in c : TempAt(ij) = agg.min
    /\ \E ij \in c : TempAt(ij) = agg.max
    /\ \A ij \in c : agg.min <= TempAt(ij) /\ TempAt(ij) <= agg.max

\* C11: in every reachable state every Aggregation of every registry, of a
\* worker or merged, has count >= 1 and min <= max, min and max are the least
\* and greatest contributing value and count is the number of contributing
\* records; the record before any update (min = i32::MAX, max = i32::MIN,
\* count = 0) is never inserted, merged or read for output.
C11_RegistryRecordsAreUpdated ==
    /\ \A i \in DOMAIN registries : \A name \in DOMAIN registries[i] :
           AggregatesExactly(registries[i][name], Contributing({i}, name))
    /\ \A name \in DOMAIN registry :
           AggregatesExactly(registry[name], Contributing(Workers, name))
    /\ \A k \in DOMAIN name_aggregations :
           /\ name_aggregations[k][2] # new
           /\ name_aggregations[k][2].count >= 1
           /\ name_aggregations[k][2].min <= name_aggregations[k][2].max

\* The merged registry of a file of two rounds: a station of several records
\* of different values, folded by more than one worker.
C11_Witness ==
    /\ pc = "write"
    /\ Len(rounds) = 2
    /\ \E name \in DOMAIN registry :
           /\ registry[name].count >= 6
           /\ registry[name].min < registry[name].max
           /\ Cardinality({i \in Workers : name \in DOMAIN registries[i]}) >= 2


----------------------------------------------------------------------------
(* Claims about the width of sum *)

\* z is x + y, and x + y is in the range of i32
ExactSum(x, y, z) ==
    IF (y >= 0 /\ x > I32_MAX - y) \/ (y < 0 /\ x < I32_MIN - y)
    THEN FALSE
    ELSE z = x + y

\* z is 10 * x, and 10 * x is in the range of i32
ExactTimes10(x, z) ==
    IF x > I32_MAX \div 10 \/ x < -(I32_MAX \div 10)
    THEN FALSE
    ELSE z = 10 * x

\* C12: after any updates and merges of records of values in -999..999, sum
\* is the exact sum of the contributing values, and the product sum * 10 of
\* mean() is ten times that sum: nothing leaves the range of i32, so the
\* mean is within one tenth-unit step of sum / count.
C12_SumNeverLeavesI32 ==
    /\ (probe.op = "merge" /\ probe.done) =>
          /\ ExactSum(probe.a.sum, probe.b.sum, merge(probe.a, probe.b).sum)
          /\ ExactSum(merge(probe.a, probe.b).sum, probe.c.sum, probe.ab_c.sum)
    /\ (probe.op = "mean" /\ probe.done) =>
          /\ ExactTimes10(probe.self.sum, WrapMul10(probe.self.sum))
          /\ probe.self.count * (probe.res - 1) <= probe.self.sum
          /\ probe.self.sum <= probe.self.count * (probe.res + 1)


----------------------------------------------------------------------------
(* Claims about failures *)

\* C13: if the file holds a malformed record, or opening or reading the file
\* fails, main does not complete and no byte of the report is written to
\* standard output.
C13_FailureWritesNothing ==
    (pc = "done" \/ out # <<>>) => (~IoFailed /\ ValidFile(file))


----------------------------------------------------------------------------
(* Claims about the threads of a round *)

SomeRunning == \E i \in Workers : workers[i].status = "running"

\* C14: in every round, while a worker of the round is running, the slices
\* the workers read are parts of working_buffer as it was at the top of the
\* round, only main's copy and read write a buffer and they write
\* loading_buffer, and the swap of the buffers and the truncation of
\* loading_buffer happen only after every worker of the round has joined.
C14_BuffersSeparatedUntilJoin ==
    /\ [](SomeRunning =>
            /\ InScope
            /\ working_buffer = rounds[Len(rounds)].working_buffer
            /\ to_process = Slice(working_buffer, 0, Len(to_process))
            /\ remainder = Slice(working_buffer, Len(to_process) + 1,
                                 Len(working_buffer))
            /\ \A i \in Workers :
                   0 <= chunks[i].start /\ chunks[i].end <= Len(to_process))
    /\ [][SomeRunning =>
            /\ working_buffer' = working_buffer
            /\ to_process' = to_process
            /\ remainder' = remainder
            /\ chunks' = chunks
            /\ Len(loading_buffer') = Len(loading_buffer)
            /\ loading_buffer' # loading_buffer =>
                  /\ pc \in {"copy", "read"}
                  /\ registries' = registries
                  /\ workers' = workers]_vars
    /\ [][(pc = "join" /\ pc' = "loop") =>
            /\ AllJoined
            /\ working_buffer' = Slice(loading_buffer, 0, Len(working_buffer'))
            /\ loading_buffer' = working_buffer]_vars

\* Main has copied the remainder and read the next bytes of the file into
\* loading_buffer while a worker of the round is still running.
C14_Witness ==
    /\ pc = "join"
    /\ SomeRunning
    /\ read > 0
    /\ remainder # <<>>
    /\ loading_buffer = remainder \o Slice(file, pos - read, pos)
    /\ working_buffer = rounds[Len(rounds)].working_buffer
    /\ \E i \in Workers : folded[i] # <<>>


\* The last line worker i gave to process_line, after the step
LastFolded(i) == folded[i][Len(folded[i])].line

\* C15: in every round worker i reads only chunk i and changes only
\* registries[i]; the chunks of a round are pairwise disjoint ranges of
\* to_process, so under every interleaving no two workers touch the same
\* bytes or the same registry, and a worker's registry after a line depends
\* only on its own registry before it and on the line.
C15_WorkersOwnChunkAndRegistry ==
    /\ [](InScope =>
            /\ \A i \in Workers : \A j \in Workers :
                   i < j => chunks[i].end < chunks[j].start
            /\ \A i \in Workers : \A k \in DOMAIN folded[i] :
                   folded[i][k].round = Len(rounds) =>
                       /\ chunks[i].start <= folded[i][k].at
                       /\ folded[i][k].at + Len(folded[i][k].line) <= chunks[i].end
                       /\ folded[i][k].line =
                              Slice(to_process, folded[i][k].at,
                                    folded[i][k].at + Len(folded[i][k].line)))
    /\ [][InScope =>
            \A i \in Workers :
                (registries'[i] # registries[i] \/ folded'[i] # folded[i]) =>
                    /\ workers[i].status = "running"
                    /\ \A j \in Workers \ {i} :
                           /\ registries'[j] = registries[j]
                           /\ workers'[j] = workers[j]
                           /\ folded'[j] = folded[j]
                    /\ Len(folded'[i]) = Len(folded[i]) + 1
                    /\ registries'[i] =
                           process_line(registries[i], LastFolded(i)').registry]_vars

\* In the second round two workers run at the same time, one of them in the
\* middle of a chunk of several lines, each with a registry of its own.
C15_Witness ==
    /\ InScope
    /\ Len(rounds) = 2
    /\ \E i \in Workers : \E j \in Workers :
           /\ i # j
           /\ workers[i].status = "running" /\ workers[i].start > 0
           /\ workers[j].status = "running" /\ workers[j].start = 0
           /\ registries[i] # registries[j]
           /\ chunks[j].end < chunks[i].start


----------------------------------------------------------------------------
(* Claims about the failures of chunk_at_newlines *)

HasNewline(s) == \E k \in DOMAIN s : s[k] = NL

\* C16: for every region of valid records that holds at least one newline,
\* chunk_at_newlines returns without panicking: each backward search finds a
\* newline not before the start of its slice, and each of the PARALLELISM
\* slices is well formed (end >= start) and non-empty.
C16_ChunkerFailsOnlyWithoutNewline ==
    (probe.done /\ HasNewline(probe.region) /\ ValidFile(probe.region)) =>
        /\ ~probe.res.panic
        /\ Len(probe.res.chunks) = PARALLELISM
        /\ \A i \in DOMAIN probe.res.chunks :
               probe.res.chunks[i].start < probe.res.chunks[i].end


----------------------------------------------------------------------------
(* Claims about consecutive rounds *)

\* Round k as it began: its working buffer, the offset of its last newline,
\* its remainder, and the file offset of its first byte
BufferOf(k) == rounds[k].working_buffer
LastNewlineOf(k) == memrchr(NL, BufferOf(k), Len(BufferOf(k)))
RemainderOf(k) == Slice(BufferOf(k), LastNewlineOf(k) + 1, Len(BufferOf(k)))
RoundStart(k) == IF k = 1 THEN 0 ELSE rounds[k].pos - Len(BufferOf(k))

\* Round k has ended: a later round began, or the loop was left
RoundOver(k) ==
    \/ Len(rounds) > k
    \/ pc \in {"reduce", "sort", "write", "done", "error", "panic"}

\* The record of the file that begins at offset `from`
RecordAt(from) ==
    LET e == memchr(NL, file, from)
    IN  Slice(file, from, IF e = -1 THEN Len(file) ELSE e)

\* The lines folded in round k from offset 0 of its to_process
FoldedFirst(k) ==
    {ij \in UNION {{i} \X DOMAIN folded[i] : i \in Workers} :
        folded[ij[1]][ij[2]].round = k /\ folded[ij[1]][ij[2]].at = 0}

\* C17: the remainder of round k is the beginning of the working buffer of
\* round k+1, followed by the bytes of the next read; the processed prefixes
\* of successive rounds are contiguous stretches of the file in file order;
\* and a record that straddles two reads is processed exactly once, as a
\* whole, in round k+1.
C17_RemainderCarriedToNextRound ==
    \A k \in 1..(Len(rounds) - 1) :
        /\ BufferOf(k + 1) =
               RemainderOf(k) \o Slice(file, rounds[k].pos, rounds[k + 1].pos)
        /\ RoundStart(k + 1) = RoundStart(k) + LastNewlineOf(k) + 1
        /\ Slice(BufferOf(k), 0, LastNewlineOf(k)) =
               Slice(file, RoundStart(k), RoundStart(k) + LastNewlineOf(k))
        /\ (RemainderOf(k) # <<>> /\ RoundOver(k + 1) /\ ValidFile(file)) =>
               /\ Cardinality(FoldedFirst(k + 1)) = 1
               /\ \A ij \in FoldedFirst(k + 1) :
                      folded[ij[1]][ij[2]].line = RecordAt(RoundStart(k + 1))


----------------------------------------------------------------------------
(* Claims about the end of the loop *)

\* Main and the workers are threads of the operating system: a thread that
\* can take a step takes one.
FairSpec == Spec /\ WF_vars(Next)

\* Main is past the loop, by the break or by an error or a panic
LoopLeft == pc \in {"reduce", "sort", "write", "done", "error", "panic"}

\* C18: for every finite file the streaming loop stops; each iteration reads
\* at least one new byte of the file or leaves the loop (the break on a read
\* of zero bytes, an error or a panic); and at the break every byte of the
\* file has been read.
C18_LoopStopsAtEndOfFile ==
    /\ <>LoopLeft
    /\ [](\A k \in 2..Len(rounds) : rounds[k].pos > rounds[k - 1].pos)
    /\ [][(pc = "join" /\ pc' # "join") =>
             \/ pc' = "loop" /\ read > 0 /\ pos = rounds[Len(rounds)].pos + read
             \/ pc' = "reduce" /\ read = 0
             \/ pc' \in {"error", "panic"}]_vars
    /\ [](pc = "reduce" => pos = Len(file))

\* The loop was left by the break after two rounds, at the end of a file
\* longer than the buffer.
C18_Witness ==
    /\ pc = "reduce"
    /\ Len(rounds) = 2
    /\ Len(file) > BUFFER_SIZE
    /\ pos = Len(file)
    /\ read = 0


----------------------------------------------------------------------------
(* Claims about the contents of working_buffer *)

\* C19: at the top of every round, the first included, working_buffer holds
\* only bytes of the file that were read and not yet processed: its length
\* is the length of the carried remainder plus the number of bytes the
\* latest read returned (the first read: the bytes read so far), and it is
\* the stretch of the file that ends at the read position, with no zero
\* padding and no bytes of an earlier round.
C19_WorkingBufferHoldsOnlyFileBytes ==
    pc = "loop" =>
        /\ Len(working_buffer) =
               IF rounds = <<>> THEN pos ELSE Len(remainder) + read
        /\ Len(working_buffer) <= pos
        /\ working_buffer = Slice(file, pos - Len(working_buffer), pos)


----------------------------------------------------------------------------
(* Claims about the report writer *)

\* C20: whenever the loop is left by the break and main reaches the report
\* writer, name_aggregations is not empty, so first().unwrap() does not
\* panic; a file without records (an empty file, a buffer without a newline)
\* ends before that, with the error 'No newline found in working buffer' or
\* a panic of the chunker, and nothing written.
C20_ReportWriterFindsFirstEntry ==
    /\ pc = "reduce" => \A i \in Workers : registries[i] # EmptyRegistry
    /\ pc \in {"sort", "write"} => registry # EmptyRegistry
    /\ pc = "write" => name_aggregations # <<>>
    /\ err # "unwrap on None"
    /\ file = <<>> => (pc \in {"open", "first_read", "loop", "error"} /\ out = <<>>)
    /\ err \in {"No newline found in working buffer",
                "There should always be a newline", "slice index"} =>
           (pc \in {"error", "panic"} /\ out = <<>>)

\* Main is at the report writer with the sorted records of two stations and
\* has written nothing yet.
C20_Witness ==
    /\ pc = "write"
    /\ Len(name_aggregations) >= 2
    /\ out = <<>>
    /\ read = 0

====
